---- MODULE Spec2Model ----
(***************************************************************************)
(* A model of examples/key_value_store.rs: an in-memory key/value store    *)
(* (a HashMap behind an Arc<RwLock<..>>) served through a middleware stack *)
(* of load shedding, a concurrency limit, a request timeout and, on the    *)
(* admin routes, bearer authorization.                                     *)
(*                                                                         *)
(* Every request is one future.  The requests that are outstanding form a  *)
(* bag: the program tells them apart by nothing but their content.  The    *)
(* model follows a request through the points where it touches shared      *)
(* state or can be suspended:                                              *)
(*   Arrive    load_shed + concurrency_limit: take a permit or be shed     *)
(*   Dispatch  routing, RequireAuthorization, the BytesMaxLength limit     *)
(*   BodyRead  the request body has been received (kv_set only)            *)
(*   Elapse    the request's timer runs out                                *)
(*   TimedOut  the timeout fires while the future is suspended             *)
(*   Lock*     state.read() / state.write()                                *)
(*   kv_get .. the handler body under the lock, and the guard's drop       *)
(*   Release   the response future is dropped, the permit with it          *)
(*                                                                         *)
(* Three specifications run these steps under three workloads:             *)
(*   Spec               two keys, values up to and over the size limit,    *)
(*                      credentials on the admin routes                    *)
(*   SpecAnyCredential  one key, every credential on every route           *)
(*   FairSpec           one key, authorized callers, one request more,     *)
(*                      and the fairness of the runtime                    *)
(***************************************************************************)
EXTENDS Integers, Sequences, FiniteSets, Bags, TLC

\* ---------------------------------------------------------------- bounds
\* The number of requests of one run.
MaxRequests == 3
\* The permits of the concurrency limit.  The source configures 1024; the
\* model scales it down so that the limit is reached by MaxRequests requests.
ConcurrencyLimit == 2

\* ------------------------------------------------------ program constants
\* BytesMaxLength<{ 1024 * 5_000 }>
MaxValueSize == 1024 * 5000
\* RequireAuthorizationLayer::bearer("secret-token")
SecretToken == "secret-token"

\* Status codes (http::StatusCode) the program answers with.
OK == 200
UNAUTHORIZED == 401
NOT_FOUND == 404
REQUEST_TIMEOUT == 408
PAYLOAD_TOO_LARGE == 413
INTERNAL_SERVER_ERROR == 500
SERVICE_UNAVAILABLE == 503

\* ---------------------------------------------------------------- inputs
Keys == {"k1", "k2"}
\* A value is a Bytes, named here by its content; len is its length in bytes.
Values == {"a", "b", "c"}
NoValue == "-"
len(value) ==
    CASE value = "a" -> 1
      [] value = "b" -> MaxValueSize
      [] value = "c" -> MaxValueSize + 1
      [] OTHER -> 0
NoCredential == "none"
Credentials == {SecretToken, "bad-token", NoCredential}
NoKey == "-"
\* A response body: the bytes of a value, or the keys that list_keys joins
\* with "\n" (an empty list joins to the empty body).
Empty == [bytes |-> NoValue, keys |-> <<>>]
Bytes(value) == [bytes |-> value, keys |-> <<>>]
Joined(ks) == [bytes |-> NoValue, keys |-> ks]

Ops == {"get", "set", "list_keys", "delete", "clear"}
\* A router that puts every route behind the authorization.
PrivilegedAll == {"get", "set", "list_keys", "delete", "clear"}
\* The routes nested under /admin, behind RequireAuthorizationLayer.
Privileged == {"delete", "clear"}

\* A request as the router decodes it: (operation, key, payload, credential).
WellFormed(q) ==
    /\ (q.op \in {"get", "set", "delete"}) <=> (q.key # NoKey)
    /\ (q.op = "set") <=> (q.value # NoValue)

AllInputs ==
    {q \in [op : Ops, key : Keys \cup {NoKey}, value : Values \cup {NoValue},
            cred : Credentials] : WellFormed(q)}

\* The workload of Spec: the callers of the admin routes send any
\* credential, the callers of the other routes send none.
Inputs == {q \in AllInputs : q.op \notin Privileged => q.cred = NoCredential}

NoRequest == [op |-> "none", key |-> NoKey, value |-> NoValue, cred |-> NoCredential]
NoResult == [status |-> 0, body |-> Empty]

VARIABLES
    db,         \* State.db: the bindings, a function from the bound keys
    readers,    \* RwLock: the number of read guards alive
    writer,     \* RwLock: whether the write guard is alive
    permits,    \* the free permits of the concurrency limit's semaphore
    arrived,    \* the number of requests that have arrived so far
    requests,   \* the bag of outstanding requests
    lastWrite   \* history: per key, the last mutation the Store applied

vars == <<db, readers, writer, permits, arrived, requests, lastWrite>>

\* ------------------------------------------------------------- the Store
\* A lookup that answers with some bound key's value when the key is absent.
getAnyKey(d, key) ==
    IF key \in DOMAIN d THEN <<"Some", d[key]>>
    ELSE IF DOMAIN d # {} THEN <<"Some", d[CHOOSE k \in DOMAIN d : TRUE]>>
    ELSE <<"None", NoValue>>
\* HashMap::get
get(d, key) == IF key \in DOMAIN d THEN <<"Some", d[key]>> ELSE <<"None", NoValue>>
\* An insert that keeps the binding a key already has (entry().or_insert).
insertIfAbsent(d, key, value) ==
    [k \in DOMAIN d \cup {key} |-> IF k \in DOMAIN d THEN d[k] ELSE value]
\* HashMap::insert: binds key to value, replacing any previous binding
insert(d, key, value) ==
    [k \in DOMAIN d \cup {key} |-> IF k = key THEN value ELSE d[k]]
\* A remove that drops every binding, not only the key's.
removeAll(d, key) == [k \in {} |-> NoValue]
\* HashMap::remove
remove(d, key) == [k \in DOMAIN d \ {key} |-> d[k]]
\* A clear that leaves one binding behind.
clearButOne(d) ==
    [k \in (IF DOMAIN d = {} THEN {} ELSE {CHOOSE k \in DOMAIN d : TRUE}) |-> d[k]]
\* HashMap::clear
clear(d) == [k \in {} |-> NoValue]
\* HashMap::keys collected into a Vec: every bound key once, in the map's
\* iteration order, which the program does not control.
keys(d) ==
    {s \in [1..Cardinality(DOMAIN d) -> DOMAIN d] :
        \A i, j \in DOMAIN s : i # j => s[i] # s[j]}

\* ---------------------------------------------------------- the responses
Response(status, body) == [status |-> status, body |-> body]

\* An error handler that knows no Elapsed error.
handle_errorNoElapsed(error) ==
    IF error = "Overloaded" THEN Response(SERVICE_UNAVAILABLE, Empty)
    ELSE Response(INTERNAL_SERVER_ERROR, Empty)
\* An error handler that knows no Overloaded error.
handle_errorUnmapped(error) ==
    IF error = "Elapsed" THEN Response(REQUEST_TIMEOUT, Empty)
    ELSE Response(INTERNAL_SERVER_ERROR, Empty)
\* handle_error: the answer to an error of the middleware stack
handle_error(error) ==
    IF error = "Elapsed" THEN Response(REQUEST_TIMEOUT, Empty)
    ELSE IF error = "Overloaded" THEN Response(SERVICE_UNAVAILABLE, Empty)
    ELSE Response(INTERNAL_SERVER_ERROR, Empty)

\* An authorization that lets a request without a credential pass.
AuthorizedIfMissing(q) == q.cred \in {SecretToken, NoCredential}
\* RequireAuthorizationLayer::bearer: the header must carry the token
Authorized(q) == q.cred = SecretToken
\* A limit that is one byte too generous.
WithinLimitPlusOne(value) == len(value) <= MaxValueSize + 1
\* BytesMaxLength<N>: a body longer than N is rejected
WithinLimit(value) == len(value) <= MaxValueSize

\* -------------------------------------------------------------- history
\* What the Store last did to a key: the operation, the value it bound,
\* the value it replaced or removed, and whether a set ever bound the key.
NoWrite == [kind |-> "none", value |-> NoValue, replaced |-> NoValue, ever |-> FALSE]
Wrote(kind, value, replaced, ever) ==
    [kind |-> kind, value |-> value, replaced |-> replaced, ever |-> ever]
Old(d, key) == get(d, key)[2]
\* The clear that emptied the Store, while no key has been written since.
LastClear(lw) ==
    IF \E k \in Keys : lw[k].kind # "clear" THEN NoWrite
    ELSE lw[CHOOSE k \in Keys :
                \A j \in Keys : lw[j].replaced # NoValue => lw[k].replaced # NoValue]

\* ------------------------------------------------------------- requests
\* A request that has just been admitted or shed: nothing of it is decoded.
\*   pc       where the request is
\*   req      what it asks, once the router has decoded it
\*   expired  whether its 10 s timer has run out
\*   result   its response
\*   seen     history: what its handler did or read in the Store (the
\*            lastWrite of its key), NoWrite while the handler has not run
Undecoded(pc, result) ==
    [pc |-> pc, req |-> NoRequest, expired |-> FALSE, result |-> result, seen |-> NoWrite]

Outstanding == BagToSet(requests)
Count(S) == LET sub == [x \in S |-> requests[x]] IN BagCardinality(sub)
\* The requests in flight: admitted by the concurrency limit, future not
\* yet dropped.
InFlight == {x \in Outstanding : x.pc # "shed"}
InFlightCount == Count(InFlight)

Add(y) == requests (+) SetToBag({y})
Remove(x) == requests (-) SetToBag({x})
Replace(x, y) == (requests (-) SetToBag({x})) (+) SetToBag({y})

\* ----------------------------------------------------------------- Init
Init ==
    /\ db = [k \in {} |-> NoValue]
    /\ readers = 0
    /\ writer = FALSE
    /\ permits = ConcurrencyLimit
    /\ arrived = 0
    /\ requests = EmptyBag
    /\ lastWrite = [k \in Keys |-> NoWrite]

\* -------------------------------------------------------------- actions
\* An admission that lets one request too many in.
ArriveOneTooMany ==
    /\ arrived < MaxRequests
    /\ arrived' = arrived + 1
    /\ IF permits >= 0
       THEN /\ permits' = permits - 1
            /\ requests' = Add(Undecoded("admitted", NoResult))
       ELSE /\ requests' = Add(Undecoded("shed", handle_error("Overloaded")))
            /\ UNCHANGED permits
    /\ UNCHANGED <<db, readers, writer, lastWrite>>

\* An admission behind the authorization: a request that finds no permit
\* free has had its credential examined, and may be answered Unauthorized.
ArriveAuthFirst ==
    /\ arrived < MaxRequests
    /\ arrived' = arrived + 1
    /\ IF permits > 0
       THEN /\ permits' = permits - 1
            /\ requests' = Add(Undecoded("admitted", NoResult))
       ELSE /\ \E r \in {handle_error("Overloaded"), Response(UNAUTHORIZED, Empty)} :
                  requests' = Add(Undecoded("shed", r))
            /\ UNCHANGED permits
    /\ UNCHANGED <<db, readers, writer, lastWrite>>

\* load_shed over concurrency_limit: a request takes a permit when one is
\* free, and is answered at once with Overloaded when none is.  Nothing of
\* the request has been decoded yet.  A run has at most n requests.
Admit(n) ==
    /\ arrived < n
    /\ arrived' = arrived + 1
    /\ IF permits > 0
       THEN /\ permits' = permits - 1
            /\ requests' = Add(Undecoded("admitted", NoResult))
       ELSE /\ requests' = Add(Undecoded("shed", handle_error("Overloaded")))
            /\ UNCHANGED permits
    /\ UNCHANGED <<db, readers, writer, lastWrite>>

Arrive == Admit(MaxRequests)

\* The request y with its answer.
Answered(y, response) == [y EXCEPT !.pc = "responded", !.result = response]

\* Where the router sends the request x decoded as q: through the
\* authorization of the admin routes, then the extractors of the handler.
Route(x, q) ==
    LET y == [x EXCEPT !.req = q]
    IN IF q.op \in Privileged /\ ~Authorized(q)
       THEN Answered(y, Response(UNAUTHORIZED, Empty))
       ELSE IF q.op = "set" /\ ~WithinLimit(q.value)
       THEN Answered(y, Response(PAYLOAD_TOO_LARGE, Empty))
       ELSE [y EXCEPT !.pc = IF q.op = "set" THEN "body" ELSE "handler"]

\* The router decodes the request, as some q of the workload W.
DispatchFrom(x, W) ==
    /\ x.pc = "admitted"
    /\ \E q \in W : requests' = Replace(x, Route(x, q))
    /\ UNCHANGED <<db, readers, writer, permits, arrived, lastWrite>>

Dispatch(x) == DispatchFrom(x, Inputs)

\* The body of a kv_set request has arrived.
BodyRead(x) ==
    /\ x.pc = "body"
    /\ requests' = Replace(x, [x EXCEPT !.pc = "handler"])
    /\ UNCHANGED <<db, readers, writer, permits, arrived, lastWrite>>

\* The request's timer, started when the request was dispatched, runs out
\* while the request waits for its body, waits for the lock or holds it.
Elapse(x) ==
    /\ x.pc \in {"body", "handler", "locked"}
    /\ ~x.expired
    /\ requests' = Replace(x, [x EXCEPT !.expired = TRUE])
    /\ UNCHANGED <<db, readers, writer, permits, arrived, lastWrite>>

\* A timeout that answers a suspended request whose timer has not run out.
TimedOutEarly(x) ==
    /\ x.pc = "body"
    /\ requests' = Replace(x, Answered(x, handle_error("Elapsed")))
    /\ UNCHANGED <<db, readers, writer, permits, arrived, lastWrite>>

\* A timeout that preempts the handler: it answers a request whose timer has
\* run out wherever the request is.
TimedOutPreemptive(x) ==
    /\ x.pc \in {"body", "handler", "locked"}
    /\ x.expired
    /\ requests' = Replace(x, Answered(x, handle_error("Elapsed")))
    /\ UNCHANGED <<db, readers, writer, permits, arrived, lastWrite>>

\* timeout: the future is suspended and its timer has run out.
TimedOut(x) ==
    /\ x.pc = "body"
    /\ x.expired
    /\ requests' = Replace(x, Answered(x, handle_error("Elapsed")))
    /\ UNCHANGED <<db, readers, writer, permits, arrived, lastWrite>>

\* state.read(): granted while no write guard is alive.
LockRead(x) ==
    /\ x.pc = "handler"
    /\ x.req.op \in {"get", "list_keys"}
    /\ ~writer
    /\ readers' = readers + 1
    /\ requests' = Replace(x, [x EXCEPT !.pc = "locked"])
    /\ UNCHANGED <<db, writer, permits, arrived, lastWrite>>

\* A write lock that is granted while read guards are alive.
LockWriteAmongReaders(x) ==
    /\ x.pc = "handler"
    /\ x.req.op \in {"set", "delete", "clear"}
    /\ ~writer
    /\ writer' = TRUE
    /\ requests' = Replace(x, [x EXCEPT !.pc = "locked"])
    /\ UNCHANGED <<db, readers, permits, arrived, lastWrite>>

\* state.write(): granted while no guard is alive.
LockWrite(x) ==
    /\ x.pc = "handler"
    /\ x.req.op \in {"set", "delete", "clear"}
    /\ ~writer
    /\ readers = 0
    /\ writer' = TRUE
    /\ requests' = Replace(x, [x EXCEPT !.pc = "locked"])
    /\ UNCHANGED <<db, readers, permits, arrived, lastWrite>>

\* A kv_get that never drops its read guard (the guard is leaked).
KvGetKeepGuard(x) ==
    /\ x.pc = "locked"
    /\ x.req.op = "get"
    /\ LET found == get(db, x.req.key)
           y == [x EXCEPT !.seen = lastWrite[x.req.key]]
       IN requests' = Replace(x, Answered(y, IF found[1] = "Some"
                                                THEN Response(OK, Bytes(found[2]))
                                                ELSE Response(NOT_FOUND, Empty)))
    /\ UNCHANGED <<db, readers, writer, permits, arrived, lastWrite>>

\* A kv_get that answers the value the last set of the key replaced.
KvGetStale(x) ==
    /\ x.pc = "locked"
    /\ x.req.op = "get"
    /\ LET stale == lastWrite[x.req.key].replaced
           found == IF stale # NoValue THEN <<"Some", stale>> ELSE get(db, x.req.key)
           y == [x EXCEPT !.seen = lastWrite[x.req.key]]
       IN requests' = Replace(x, Answered(y, IF found[1] = "Some"
                                                THEN Response(OK, Bytes(found[2]))
                                                ELSE Response(NOT_FOUND, Empty)))
    /\ readers' = readers - 1
    /\ UNCHANGED <<db, writer, permits, arrived, lastWrite>>

\* kv_get under the read guard; the guard is dropped when it returns.
KvGet(x) ==
    /\ x.pc = "locked"
    /\ x.req.op = "get"
    /\ LET found == get(db, x.req.key)
           y == [x EXCEPT !.seen = lastWrite[x.req.key]]
       IN requests' = Replace(x, Answered(y, IF found[1] = "Some"
                                                THEN Response(OK, Bytes(found[2]))
                                                ELSE Response(NOT_FOUND, Empty)))
    /\ readers' = readers - 1
    /\ UNCHANGED <<db, writer, permits, arrived, lastWrite>>

\* A list_keys that takes the keys out of the map (drain instead of keys).
ListKeysDrain(x) ==
    /\ x.pc = "locked"
    /\ x.req.op = "list_keys"
    /\ LET y == [x EXCEPT !.seen = LastClear(lastWrite)]
       IN \E s \in keys(db) : requests' = Replace(x, Answered(y, Response(OK, Joined(s))))
    /\ db' = clear(db)
    /\ readers' = readers - 1
    /\ UNCHANGED <<writer, permits, arrived, lastWrite>>

\* list_keys under the read guard.
ListKeys(x) ==
    /\ x.pc = "locked"
    /\ x.req.op = "list_keys"
    /\ LET y == [x EXCEPT !.seen = LastClear(lastWrite)]
       IN \E s \in keys(db) : requests' = Replace(x, Answered(y, Response(OK, Joined(s))))
    /\ readers' = readers - 1
    /\ UNCHANGED <<db, writer, permits, arrived, lastWrite>>

\* A kv_set whose insert is lost: it answers without binding the key.
KvSetLost(x) ==
    /\ x.pc = "locked"
    /\ x.req.op = "set"
    /\ db' = db
    /\ lastWrite' = [lastWrite EXCEPT
          ![x.req.key] = Wrote("set", x.req.value, Old(db, x.req.key), TRUE)]
    /\ writer' = FALSE
    /\ LET y == [x EXCEPT !.seen = lastWrite'[x.req.key]]
       IN requests' = Replace(x, Answered(y, Response(OK, Empty)))
    /\ UNCHANGED <<readers, permits, arrived>>

\* kv_set: one statement under the write guard.
KvSet(x) ==
    /\ x.pc = "locked"
    /\ x.req.op = "set"
    /\ db' = insert(db, x.req.key, x.req.value)
    /\ lastWrite' = [lastWrite EXCEPT
          ![x.req.key] = Wrote("set", x.req.value, Old(db, x.req.key), TRUE)]
    /\ writer' = FALSE
    /\ LET y == [x EXCEPT !.seen = lastWrite'[x.req.key]]
       IN requests' = Replace(x, Answered(y, Response(OK, Empty)))
    /\ UNCHANGED <<readers, permits, arrived>>

\* A remove_key that drops the key's neighbours with it (retain on the
\* wrong condition).
RemoveKeyAndOthers(x) ==
    /\ x.pc = "locked"
    /\ x.req.op = "delete"
    /\ db' = clear(db)
    /\ lastWrite' = [lastWrite EXCEPT
          ![x.req.key] = Wrote("delete", NoValue, Old(db, x.req.key), @.ever)]
    /\ writer' = FALSE
    /\ LET y == [x EXCEPT !.seen = lastWrite'[x.req.key]]
       IN requests' = Replace(x, Answered(y, Response(OK, Empty)))
    /\ UNCHANGED <<readers, permits, arrived>>

\* remove_key: one statement under the write guard.
RemoveKey(x) ==
    /\ x.pc = "locked"
    /\ x.req.op = "delete"
    /\ db' = remove(db, x.req.key)
    /\ lastWrite' = [lastWrite EXCEPT
          ![x.req.key] = Wrote("delete", NoValue, Old(db, x.req.key), @.ever)]
    /\ writer' = FALSE
    /\ LET y == [x EXCEPT !.seen = lastWrite'[x.req.key]]
       IN requests' = Replace(x, Answered(y, Response(OK, Empty)))
    /\ UNCHANGED <<readers, permits, arrived>>

\* delete_all_keys: one statement under the write guard.
DeleteAllKeys(x) ==
    /\ x.pc = "locked"
    /\ x.req.op = "clear"
    /\ db' = clear(db)
    /\ lastWrite' = [k \in Keys |->
          Wrote("clear", NoValue, Old(db, k), lastWrite[k].ever)]
    /\ writer' = FALSE
    /\ LET y == [x EXCEPT !.seen = LastClear(lastWrite')]
       IN requests' = Replace(x, Answered(y, Response(OK, Empty)))
    /\ UNCHANGED <<readers, permits, arrived>>

\* A release that keeps the permit of a request answered with an error.
ReleaseOnSuccessOnly(x) ==
    /\ x.pc = "responded"
    /\ permits' = IF x.result.status = OK THEN permits + 1 ELSE permits
    /\ requests' = Remove(x)
    /\ UNCHANGED <<db, readers, writer, arrived, lastWrite>>

\* The response is out and the request's future is dropped: the permit it
\* held goes back to the semaphore.
Release(x) ==
    /\ x.pc = "responded"
    /\ permits' = permits + 1
    /\ requests' = Remove(x)
    /\ UNCHANGED <<db, readers, writer, arrived, lastWrite>>

\* A shed request held no permit: its answer is out.
Close(x) ==
    /\ x.pc = "shed"
    /\ requests' = Remove(x)
    /\ UNCHANGED <<db, readers, writer, permits, arrived, lastWrite>>

Next ==
    \/ Arrive
    \/ \E x \in Outstanding : Dispatch(x)
    \/ \E x \in Outstanding : BodyRead(x)
    \/ \E x \in Outstanding : Elapse(x)
    \/ \E x \in Outstanding : TimedOut(x)
    \/ \E x \in Outstanding : LockRead(x)
    \/ \E x \in Outstanding : LockWrite(x)
    \/ \E x \in Outstanding : KvGet(x)
    \/ \E x \in Outstanding : ListKeys(x)
    \/ \E x \in Outstanding : KvSet(x)
    \/ \E x \in Outstanding : RemoveKey(x)
    \/ \E x \in Outstanding : DeleteAllKeys(x)
    \/ \E x \in Outstanding : Release(x)
    \/ \E x \in Outstanding : Close(x)

Spec == Init /\ [][Next]_vars

\* ------------------------------------------- the other workloads
\* What the program does with a request once it is dispatched.
Served ==
    \/ \E x \in Outstanding : BodyRead(x)
    \/ \E x \in Outstanding : Elapse(x)
    \/ \E x \in Outstanding : TimedOut(x)
    \/ \E x \in Outstanding : LockRead(x)
    \/ \E x \in Outstanding : LockWrite(x)
    \/ \E x \in Outstanding : KvGet(x)
    \/ \E x \in Outstanding : ListKeys(x)
    \/ \E x \in Outstanding : KvSet(x)
    \/ \E x \in Outstanding : RemoveKey(x)
    \/ \E x \in Outstanding : DeleteAllKeys(x)
    \/ \E x \in Outstanding : Release(x)
    \/ \E x \in Outstanding : Close(x)

\* A workload on one key and one value whose callers send any credential,
\* or none, to every route.
CredentialInputs ==
    {q \in AllInputs : q.key \in {NoKey, "k1"} /\ q.value \in {NoValue, "a"}}
DispatchAnyCredential(x) == DispatchFrom(x, CredentialInputs)
NextAnyCredential ==
    \/ Arrive
    \/ \E x \in Outstanding : DispatchAnyCredential(x)
    \/ Served
SpecAnyCredential == Init /\ [][NextAnyCredential]_vars

\* A workload of authorized callers on one key and one value, in a run of
\* one request more, so that a request can arrive after one was shed and
\* the requests in flight have ended.
LiveInputs ==
    {q \in AllInputs :
        /\ q.key \in {NoKey, "k1"}
        /\ q.value \in {NoValue, "a"}
        /\ q.cred = (IF q.op \in {"delete", "clear"} THEN SecretToken ELSE NoCredential)}
ArriveAgain == Admit(MaxRequests + 1)
DispatchLive(x) == DispatchFrom(x, LiveInputs)
NextLive ==
    \/ ArriveAgain
    \/ \E x \in Outstanding : DispatchLive(x)
    \/ Served
\* The steps of the program, as opposed to those of its clients (a request
\* arrives, the body of one arrives).
Program ==
    \/ \E x \in Outstanding : DispatchLive(x)
    \/ \E x \in Outstanding : Elapse(x) \/ TimedOut(x)
    \/ \E x \in Outstanding : LockRead(x) \/ LockWrite(x)
    \/ \E x \in Outstanding : KvGet(x) \/ ListKeys(x)
    \/ \E x \in Outstanding : KvSet(x) \/ RemoveKey(x) \/ DeleteAllKeys(x)
    \/ \E x \in Outstanding : Release(x) \/ Close(x)
\* What the runtime guarantees: while the program has a step to take it
\* takes one (a task that can run is run, a timer runs out, a free lock is
\* granted, a response is written and its future dropped).  Nothing makes a
\* client send a request, or the body of one.
Fairness == WF_vars(Program)
FairSpec == Init /\ [][NextLive]_vars /\ Fairness

\* =================================================================== claims
\* The claims about an operation are about a request that was admitted and
\* decoded as that operation: a request that is shed is answered Overloaded
\* before anything of it is read.
Answers == {x \in Outstanding : x.pc = "responded"}
AnswersTo(op) == {x \in Answers : x.req.op = op}
\* The requests this step answers.
NewAnswers == {y \in BagToSet(requests') :
                 y.pc = "responded" /\ CopiesIn(y, requests') > CopiesIn(y, requests)}
NotFound == Response(NOT_FOUND, Empty)

\* C1: a get(k) that reads after a set(k, v), with no set, delete or clear
\* of k in between, answers exactly v; so after set(k, v1), set(k, v2) it
\* answers v2.
C1_LastWriteWins ==
    \A x \in AnswersTo("get") :
        x.seen.kind = "set" => x.result = Response(OK, Bytes(x.seen.value))

\* A get answered the value of a set that replaced another value.
C1_Witness ==
    \E x \in AnswersTo("get") :
        /\ x.seen.kind = "set"
        /\ x.seen.replaced \notin {NoValue, x.seen.value}
        /\ x.result = Response(OK, Bytes(x.seen.value))

\* C2: from the empty Store of the start, a get(k) of a key that no set has
\* bound yet answers NotFound.
C2_UnsetKeyNotFound ==
    /\ arrived = 0 => DOMAIN db = {}
    /\ \A x \in AnswersTo("get") : ~x.seen.ever => x.result = NotFound

\* A get of a key never set answered NotFound while another key was bound.
C2_Witness ==
    \E x \in AnswersTo("get") :
        /\ ~x.seen.ever
        /\ x.result = NotFound
        /\ DOMAIN db # {}
        /\ \A k \in DOMAIN db : k # x.req.key

C3_DeleteStates ==
    /\ \A x \in AnswersTo("delete") :
          x.req.cred = SecretToken =>
              x.result = Response(OK, Empty) /\ x.seen.kind = "delete"
    /\ \A k \in Keys : lastWrite[k].kind = "delete" => k \notin DOMAIN db
    /\ \A x \in AnswersTo("get") : x.seen.kind = "delete" => x.result = NotFound
C3_DeleteStep ==
    \A x \in Outstanding :
        RemoveKey(x) =>
            /\ x.req.key \notin DOMAIN db'
            /\ x.req.key \notin DOMAIN db => db' = db
            /\ \A k \in DOMAIN db \ {x.req.key} : k \in DOMAIN db' /\ db'[k] = db[k]
\* C3: an authorized delete(k) always succeeds; of an absent key it leaves
\* the Store as it is, of a present key it removes the binding, and a get(k)
\* that reads next answers NotFound.
C3_Delete == []C3_DeleteStates /\ [][C3_DeleteStep]_vars

\* A get answered NotFound after the delete of a key that was bound.
C3_Witness ==
    \E x \in AnswersTo("get") :
        /\ x.seen.kind = "delete"
        /\ x.seen.replaced # NoValue
        /\ x.result = NotFound

\* C4: an authorized clear() removes every binding, and a list_keys() that
\* reads after it, with no set in between, answers the empty sequence.
C4_ClearThenList ==
    /\ \A x \in AnswersTo("clear") :
          x.req.cred = SecretToken =>
              x.result = Response(OK, Empty) /\ x.seen.kind = "clear"
    /\ (\A k \in Keys : lastWrite[k].kind = "clear") => DOMAIN db = {}
    /\ \A x \in AnswersTo("list_keys") :
          x.seen.kind = "clear" => x.result = Response(OK, Joined(<<>>))

\* A list_keys answered the empty sequence after a clear that removed
\* bindings.
C4_Witness ==
    \E x \in AnswersTo("list_keys") :
        /\ x.seen.kind = "clear"
        /\ x.seen.replaced # NoValue
        /\ x.result = Response(OK, Joined(<<>>))

C5_States ==
    \A x \in Outstanding :
        x.req.op = "set" /\ len(x.req.value) > MaxValueSize =>
            /\ x.pc = "responded"
            /\ x.result = Response(PAYLOAD_TOO_LARGE, Empty)
            /\ x.seen = NoWrite
C5_Step ==
    \A y \in NewAnswers :
        y.result.status = PAYLOAD_TOO_LARGE => db' = db /\ lastWrite' = lastWrite
\* C5: a set(k, v) whose value is longer than max_value_size (5,120,000
\* bytes) answers PayloadTooLarge and leaves every binding of the Store,
\* that of k included, as it was.
C5_PayloadTooLarge == []C5_States /\ [][C5_Step]_vars

\* An oversized set of a bound key was answered PayloadTooLarge.
C5_Witness ==
    \E x \in AnswersTo("set") :
        /\ len(x.req.value) > MaxValueSize
        /\ x.result = Response(PAYLOAD_TOO_LARGE, Empty)
        /\ x.req.key \in DOMAIN db

C6_States ==
    /\ \A x \in Outstanding :
          x.req.op \in Privileged /\ x.req.cred # SecretToken =>
              /\ x.pc = "responded"
              /\ x.result = Response(UNAUTHORIZED, Empty)
              /\ x.seen = NoWrite
    /\ \A x \in Answers :
          x.req.op \in Privileged /\ x.req.cred = SecretToken =>
              /\ x.result = Response(OK, Empty)
              /\ x.seen.kind = x.req.op
C6_Step ==
    \A y \in NewAnswers :
        /\ y.result.status = UNAUTHORIZED => db' = db /\ lastWrite' = lastWrite
        /\ y.req.op = "delete" /\ y.req.cred = SecretToken => y.req.key \notin DOMAIN db'
        /\ y.req.op = "clear" /\ y.req.cred = SecretToken => DOMAIN db' = {}
\* C6: a clear or delete sent with a wrong or with no credential answers
\* Unauthorized and leaves the Store as it was; sent with the configured
\* credential, it is applied.
C6_Unauthorized == []C6_States /\ [][C6_Step]_vars

\* A delete of a bound key, sent without the token, was answered
\* Unauthorized, and the key is still bound.
C6_Witness ==
    \E x \in AnswersTo("delete") :
        /\ x.req.cred # SecretToken
        /\ x.result = Response(UNAUTHORIZED, Empty)
        /\ x.req.key \in DOMAIN db

Overloaded == Response(SERVICE_UNAVAILABLE, Empty)
C7_States ==
    /\ \A x \in Outstanding : x.pc = "shed" => x.result = Overloaded
    /\ BagCardinality(requests) > ConcurrencyLimit =>
          \E x \in Outstanding : x.pc = "shed" /\ x.result = Overloaded
C7_Step ==
    arrived' = arrived + 1 /\ InFlightCount = ConcurrencyLimit =>
        /\ requests' = Add(Undecoded("shed", Overloaded))
        /\ permits' = permits
\* C7: admission never queues: a request that arrives while
\* max_concurrent_operations requests are in flight is answered Overloaded
\* in that step, so of max_concurrent_operations + 1 outstanding requests
\* one at least is answered Overloaded.
C7_NeverQueues == []C7_States /\ [][C7_Step]_vars

\* One request more than the limit is outstanding, and one is shed.
C7_Witness ==
    /\ BagCardinality(requests) = ConcurrencyLimit + 1
    /\ \E x \in Outstanding : x.pc = "shed" /\ x.result = Overloaded

\* C8: in every reachable state the number of requests in flight is between
\* 0 and max_concurrent_operations.
C8_InFlightBounded ==
    /\ InFlightCount \in 0..ConcurrencyLimit
    /\ permits \in 0..ConcurrencyLimit

\* The limit is reached while one request in flight has timed out and
\* another holds the lock.
C8_Witness ==
    /\ InFlightCount = ConcurrencyLimit
    /\ \E x \in InFlight : x.result.status = REQUEST_TIMEOUT
    /\ \E x \in InFlight : x.pc = "locked"

\* C9: every admitted request gives its permit back exactly once, however
\* it ends: the permits taken are those of the requests in flight, and all
\* permits are free when no request is in flight.
C9_PermitsBalance ==
    /\ ConcurrencyLimit - permits = InFlightCount
    /\ InFlight = {} => permits = ConcurrencyLimit

\* Every request of the run has ended, and every permit is free again.
C9_Witness ==
    /\ arrived = MaxRequests
    /\ requests = EmptyBag
    /\ permits = ConcurrencyLimit

TimedOutAnswer == Response(REQUEST_TIMEOUT, Empty)
C10_States ==
    \A x \in Answers :
        x.result.status = REQUEST_TIMEOUT =>
            /\ x.result = TimedOutAnswer
            /\ x.expired
            /\ x.req.op = "set"
            /\ x.seen = NoWrite
C10_Step ==
    \A y \in NewAnswers :
        y.result.status = REQUEST_TIMEOUT => db' = db /\ lastWrite' = lastWrite
HistoryBinding(w) == IF w.kind = "set" THEN w.value ELSE NoValue
Binding(d, k) == IF k \in DOMAIN d THEN d[k] ELSE NoValue

\* C11: two sets of one key, set(k, a) and set(k, b), in flight together:
\* once both have been applied, k is bound to a or to b, to the value of
\* the one applied last, and every key of the Store holds what the last
\* mutation applied to it left there.
C11_ConcurrentSets ==
    /\ \A k \in Keys : Binding(db, k) = HistoryBinding(lastWrite[k])
    /\ \A x, y \in AnswersTo("set") :
          /\ x.req.key = y.req.key
          /\ x.seen.kind = "set" /\ y.seen.kind = "set"
          /\ lastWrite[x.req.key] \in {x.seen, y.seen}
          => /\ x.req.key \in DOMAIN db
             /\ db[x.req.key] \in {x.req.value, y.req.value}
             /\ db[x.req.key] = lastWrite[x.req.key].value

\* Two sets of one key with different values are both applied, the second
\* over the value of the first, and another key keeps its binding.
C11_Witness ==
    \E x, y \in AnswersTo("set") :
        /\ x.req.key = y.req.key
        /\ x.req.value # y.req.value
        /\ x.seen.kind = "set" /\ y.seen.kind = "set"
        /\ x.seen.replaced = y.req.value
        /\ lastWrite[x.req.key] = x.seen
        /\ db[x.req.key] = x.req.value
        /\ \E j \in DOMAIN db : j # x.req.key

\* The requests that hold the read guard, and those that hold the write guard.
ReadGuards == {x \in Outstanding : x.pc = "locked" /\ x.req.op \in {"get", "list_keys"}}
WriteGuards == {x \in Outstanding : x.pc = "locked" /\ x.req.op \in {"set", "delete", "clear"}}

\* C12: at most one request holds the write guard; while one does, none
\* holds a read guard; read guards are held by any number of readers.
C12_Exclusion ==
    /\ Count(WriteGuards) <= 1
    /\ writer <=> Count(WriteGuards) = 1
    /\ readers = Count(ReadGuards)
    /\ Count(WriteGuards) = 1 => Count(ReadGuards) = 0

\* Two readers hold the read guard together, over a Store a writer has
\* written.
C12_Witness ==
    /\ Count(ReadGuards) = 2
    /\ readers = 2
    /\ ~writer
    /\ DOMAIN db # {}

\* The answer a get of key k reads from the bindings d.
Reads(d, k) == IF k \in DOMAIN d THEN Response(OK, Bytes(d[k])) ELSE NotFound
Mutators == {"set", "delete", "clear"}
\* The step in which an operation is answered is the step in which it
\* reads or changes the Store: a get answers the binding of that moment, a
\* mutation is applied when it is answered, and the Store changes in no
\* other step.
C13_Step ==
    /\ \A y \in NewAnswers :
          /\ y.req.op = "get" => y.result = Reads(db, y.req.key) /\ db' = db
          /\ y.req.op = "set" /\ y.result.status = OK =>
                y.req.key \in DOMAIN db' /\ db'[y.req.key] = y.req.value
          /\ y.req.op = "delete" /\ y.result.status = OK => y.req.key \notin DOMAIN db'
          /\ y.req.op = "clear" /\ y.result.status = OK => DOMAIN db' = {}
    /\ db' # db =>
          \E y \in NewAnswers : y.req.op \in Mutators /\ y.result.status = OK
    /\ \A k \in Keys :
          Binding(db', k) # Binding(db, k) =>
              \E y \in NewAnswers : y.req.op = "clear" \/ y.req.key = k
\* C13: the operations on a key are linearizable: the order of the steps
\* that answer them is a total order that explains every get (a get
\* answers what the latest mutation before it left) and respects real time
\* (the step of an operation lies between its submission and its answer, so
\* a get never answers a value older than a set answered before it began).
C13_Linearizable == [][C13_Step]_vars

\* A get answered the value of a set that overwrote another value; both are
\* still in flight.
C13_Witness ==
    \E x \in AnswersTo("get"), y \in AnswersTo("set") :
        /\ x.req.key = y.req.key
        /\ y.seen.kind = "set"
        /\ y.seen.replaced \notin {NoValue, y.req.value}
        /\ x.seen = y.seen
        /\ x.result = Response(OK, Bytes(y.req.value))

C15_Admitted == {x \in Outstanding : x.pc \in {"admitted", "body", "handler", "locked", "responded"}}
\* C15: admission, then the access policy, then the Store.  A request that
\* found no permit is answered Overloaded with nothing of it decoded, its
\* credential included; Unauthorized is an answer to admitted requests only;
\* a request that is at its handler, holds the lock or has used the Store
\* holds a permit and, if privileged, carries the configured credential.
C15_StageOrder ==
    /\ \A x \in Outstanding \ C15_Admitted :
          x.pc = "shed" /\ x.req = NoRequest /\ x.result = Overloaded /\ x.seen = NoWrite
    /\ Count(C15_Admitted) = ConcurrencyLimit - permits
    /\ \A x \in Outstanding :
          x.result.status = UNAUTHORIZED =>
              /\ x \in C15_Admitted /\ x.pc = "responded"
              /\ x.req.op \in {"delete", "clear"}
              /\ x.seen = NoWrite
    /\ \A x \in Outstanding :
          x.pc \in {"body", "handler", "locked"} \/ x.seen # NoWrite =>
              /\ x \in C15_Admitted
              /\ x.req.op \in {"delete", "clear"} => x.req.cred = SecretToken
    /\ (writer \/ readers > 0) => \E x \in C15_Admitted : x.pc = "locked"

\* At full capacity one request is shed, while of the admitted ones a
\* privileged request without the credential was answered Unauthorized and
\* an authorized one holds the write guard.
C15_Witness ==
    /\ permits = 0
    /\ \E x \in Outstanding : x.pc = "shed" /\ x.result = Overloaded
    /\ \E x \in Answers : x.result.status = UNAUTHORIZED
    /\ \E x \in Outstanding :
          x.pc = "locked" /\ x.req.op \in {"delete", "clear"} /\ x.req.cred = SecretToken

C16_Step ==
    /\ \A y \in NewAnswers :
          y.req.op \in {"get", "list_keys"} =>
              /\ db' = db
              /\ lastWrite' = lastWrite
              /\ y.result.status \in {OK, NOT_FOUND}
    /\ readers' # readers => db' = db
\* C16: get and list_keys do not mutate: the bindings of the Store are the
\* same before and after each of them, whether a get finds its key or
\* answers NotFound.
C16_ReadsDoNotMutate == [][C16_Step]_vars

\* A get answered NotFound and a list_keys answered the one bound key; the
\* key is still bound.
C16_Witness ==
    /\ \E x \in AnswersTo("get") : x.result = NotFound
    /\ \E x \in AnswersTo("list_keys") :
          /\ Len(x.result.body.keys) = 1
          /\ DOMAIN db = {x.result.body.keys[1]}

Errors == {"Elapsed", "Overloaded", "Other"}
\* C17: an error of the admission and timeout layers is answered as an
\* error, never as success: Elapsed as 408, Overloaded as 503, any other
\* error as 500; so a request that was shed is answered 503, and a set
\* within the limit that was answered before its handler ran is answered 408.
C17_ErrorsReported ==
    /\ \A e \in Errors :
          handle_error(e) =
              Response(CASE e = "Elapsed" -> REQUEST_TIMEOUT
                         [] e = "Overloaded" -> SERVICE_UNAVAILABLE
                         [] OTHER -> INTERNAL_SERVER_ERROR, Empty)
    /\ \A x \in Outstanding :
          /\ x.pc = "shed" => x.result = Response(SERVICE_UNAVAILABLE, Empty)
          /\ x.pc = "responded" /\ x.req.op = "set" /\ x.seen = NoWrite
                /\ len(x.req.value) <= MaxValueSize =>
                   x.result = Response(REQUEST_TIMEOUT, Empty) /\ x.expired
          /\ x.result.status = OK => x.pc = "responded"

\* One request was shed and answered 503 while a set that timed out was
\* answered 408.
C17_Witness ==
    /\ \E x \in Outstanding : x.pc = "shed" /\ x.result.status = SERVICE_UNAVAILABLE
    /\ \E x \in AnswersTo("set") : x.expired /\ x.result.status = REQUEST_TIMEOUT

\* The requests whose timer ran out after their handler had started: only a
\* set is ever suspended before its handler, waiting for its body.
C18_Overran == {x \in Answers : x.expired /\ x.req.op # "set"}
C18_States ==
    /\ \A x \in C18_Overran :
          /\ x.result.status \in {OK, NOT_FOUND}
          /\ x.req.op \in {"delete", "clear"} => x.seen.kind = x.req.op
    /\ \A x \in Outstanding :
          x.pc = "locked" /\ x.expired => x.result = NoResult
    /\ \A k \in Keys : Binding(db, k) = HistoryBinding(lastWrite[k])
    /\ Count(WriteGuards) = (IF writer THEN 1 ELSE 0)
    /\ Count(ReadGuards) = readers
C18_Step ==
    \A y \in NewAnswers :
        /\ y.expired /\ y.req.op = "get" => y.result = Reads(db, y.req.key)
        /\ y.expired /\ y.req.op = "delete" => y.req.key \notin DOMAIN db'
        /\ y.expired /\ y.req.op = "clear" => DOMAIN db' = {}
        /\ y.expired /\ y.req.op = "set" /\ y.result.status = OK =>
              y.req.key \in DOMAIN db' /\ db'[y.req.key] = y.req.value
        /\ y.result.status = REQUEST_TIMEOUT => readers' = readers /\ writer' = writer
C20_Step ==
    \A y \in NewAnswers :
        y.req.op \in {"set", "delete"} =>
            \A j \in Keys \ {y.req.key} :
                /\ j \in DOMAIN db' <=> j \in DOMAIN db
                /\ j \in DOMAIN db => db'[j] = db[j]
\* C20: a set(k, v) and a delete(k) change at most the binding of k: every
\* other key j is bound to the same value, or is absent, before and after.
C20_Frame == [][C20_Step]_vars

\* A set and a delete of one key were applied while another key was bound,
\* and that key is still bound.
C20_Witness ==
    \E x \in AnswersTo("set"), y \in AnswersTo("delete") :
        /\ x.req.key = y.req.key
        /\ x.seen.kind = "set"
        /\ y.seen.kind = "delete"
        /\ y.seen.replaced = x.req.value
        /\ \E j \in DOMAIN db : j # x.req.key

C14_Open == {"get", "set", "list_keys"}
\* The answer to a get, set or list_keys, from what the request asks and
\* what its handler found in the Store; the credential has no part in it.
C14_Outcome(x) ==
    CASE x.req.op = "get" ->
            IF x.seen.kind = "set" THEN Response(OK, Bytes(x.seen.value)) ELSE NotFound
      [] x.req.op = "set" ->
            IF len(x.req.value) > MaxValueSize THEN Response(PAYLOAD_TOO_LARGE, Empty)
            ELSE IF x.seen = NoWrite THEN Response(REQUEST_TIMEOUT, Empty)
            ELSE Response(OK, Empty)
      [] OTHER -> Response(OK, x.result.body)
\* C14: get, set and list_keys are not subject to the credential check:
\* whatever credential they carry, the router sends them where it sends
\* them with the configured one, none is answered Unauthorized, and their
\* answer is the one their operation has with the configured credential.
C14_OpenRoutes ==
    /\ \A x \in Outstanding :
          x.req.op \in C14_Open =>
              /\ x.result.status # UNAUTHORIZED
              /\ \A c \in Credentials :
                    LET u == Undecoded("admitted", NoResult)
                        there == Route(u, [x.req EXCEPT !.cred = c])
                        here == Route(u, x.req)
                    IN there.pc = here.pc /\ there.result = here.result
    /\ \A x \in Answers : x.req.op \in C14_Open => x.result = C14_Outcome(x)

\* A set without a credential was applied, and a get with a wrong
\* credential answered its value.
C14_Witness ==
    \E x \in AnswersTo("get"), y \in AnswersTo("set") :
        /\ x.req.cred = "bad-token"
        /\ y.req.cred = NoCredential
        /\ y.seen.kind = "set"
        /\ x.seen = y.seen
        /\ x.result = Response(OK, Bytes(y.req.value))

\* No request is in flight: every permit is free and so is the lock.
C19_Drained ==
    /\ InFlight = {}
    /\ permits = ConcurrencyLimit
    /\ ~writer
    /\ readers = 0
C19_Shed == \E x \in Outstanding : x.pc = "shed"
\* A request that arrives while a permit is free is admitted.
C19_Step ==
    arrived' = arrived + 1 /\ permits > 0 =>
        /\ permits' = permits - 1
        /\ requests' = Add(Undecoded("admitted", NoResult))
\* C19: under fair scheduling, whenever requests are in flight they all end
\* and give their permits back: no handler waits for the lock for ever,
\* whatever readers and writers are about, no set waits for its body for
\* ever, and no permit is lost.  So after a request was shed every permit
\* becomes free again, and a request that arrives then is admitted.
C19_Progress ==
    /\ ~C19_Drained ~> C19_Drained
    /\ [][C19_Step]_vars

\* A request was shed and is not closed yet, the requests in flight have
\* all ended and released their permits, one of them a writer, and a
\* request is still to come.
C19_Witness ==
    /\ C19_Shed
    /\ C19_Drained
    /\ lastWrite["k1"].kind # "none"
    /\ arrived = MaxRequests

====
